---- MODULE Spec2Model ----
(***************************************************************************)
(* A model of mathie: unit-tagged Value / Vec2D and the Rect built on the  *)
(* untagged Vec2.  Every operation of the library is a pure function; the  *)
(* state machine below is a caller that picks arguments from bounded sets, *)
(* performs one call, records the call and its outcome, and returns to     *)
(* the ready state.                                                        *)
(***************************************************************************)
EXTENDS Integers, Sequences, FiniteSets, TLC

(***************************************************************************)
(* Bounds of the model.                                                    *)
(***************************************************************************)
\* Rect and Vec2 coordinates are drawn from -MaxCoord .. MaxCoord.
MaxCoord == 1
\* A downstream unit type carries an instance id in 0 .. MaxUnitId.
MaxUnitId == 1
\* Integer lanes of the Value and Vec2D arguments are drawn from -MaxLane .. MaxLane
\* (as far as the element type has them) and the limits of the element type.
MaxLane == 1

(***************************************************************************)
(* The caller.  cfg is the build: debug_assertions (which also compiles    *)
(* the integer overflow checks in) and the crate feature debug_unit_check. *)
(* pc is "ready" before a call and "done" after it; call records the       *)
(* function called and its arguments, outcome what came back.              *)
(***************************************************************************)
VARIABLES cfg, pc, call, outcome

vars == <<cfg, pc, call, outcome>>

\* an argument slot a call does not use
Nil == [nil |-> TRUE]

\* a call: the function, the operator of an arithmetic call, the receiver and
\* the further arguments
Call(fn, op, self, arg, arg2) ==
  [fn |-> fn, op |-> op, self |-> self, arg |-> arg, arg2 |-> arg2]

NoCall == Call("none", "none", Nil, Nil, Nil)

RetVal(v) == [kind |-> "value", val |-> v, why |-> "none"]

RetNone == [kind |-> "none", val |-> Nil, why |-> "none"]

RetPanic(why) == [kind |-> "panic", val |-> Nil, why |-> why]

\* Option::expect
Expect(opt, msg) == IF opt.some THEN RetVal(opt.v) ELSE RetPanic(msg)

\* an Option as the caller sees it
RetOption(opt) == IF opt.some THEN RetVal(opt.v) ELSE RetNone

(***************************************************************************)
(* binary64 arithmetic, as far as UnitCompatibility::convert_pos2 uses it: *)
(* the quotient of two base factors, the product of an integer lane with   *)
(* that quotient, and the truncating cast back to an integer.  A positive  *)
(* double is m * 2^e with the integer m held as limbs of 14 bits, least    *)
(* significant first.                                                      *)
(***************************************************************************)
LimbBase == 2^14

\* F(v) with v computed once
Bind(v, F(_)) == CHOOSE r \in {F(t) : t \in {v}} : TRUE

BigZero == <<0, 0, 0, 0, 0>>

BigOfInt(n) == <<n % LimbBase, (n \div LimbBase) % LimbBase, n \div (LimbBase * LimbBase), 0, 0>>

\* bit i (0 = least significant) of the limb vector X
BitOf(X, i) ==
  IF i < 0 \/ i >= 14 * Len(X) THEN 0
  ELSE (X[(i \div 14) + 1] \div (2^(i % 14))) % 2

BigIsZero(X) == \A i \in 1..Len(X) : X[i] = 0

\* the number of significant bits of X
BitLen(X) ==
  IF BigIsZero(X) THEN 0
  ELSE Bind(CHOOSE i \in 1..Len(X) : X[i] # 0 /\ \A j \in (i + 1)..Len(X) : X[j] = 0,
            LAMBDA top :
              14 * (top - 1) + CHOOSE k \in 1..14 : 2^(k - 1) <= X[top] /\ X[top] < 2^k)

\* X * k + c for small k, c
RECURSIVE MulSmallFrom(_, _, _, _)
MulSmallFrom(X, k, c, i) ==
  IF i > Len(X) THEN <<>>
  ELSE Bind(X[i] * k + c, LAMBDA t :
         <<t % LimbBase>> \o MulSmallFrom(X, k, t \div LimbBase, i + 1))

BigMulSmall(X, k) == MulSmallFrom(X, k, 0, 1)

BigDoublePlus(X, bit) == MulSmallFrom(X, 2, bit, 1)

BigInc(X) == MulSmallFrom(X, 1, 1, 1)

RECURSIVE BigGeqFrom(_, _, _)
BigGeqFrom(X, Y, i) ==
  IF i = 0 THEN TRUE
  ELSE IF X[i] > Y[i] THEN TRUE
  ELSE IF X[i] < Y[i] THEN FALSE
  ELSE BigGeqFrom(X, Y, i - 1)

BigGeq(X, Y) == BigGeqFrom(X, Y, Len(X))

\* X - Y for X >= Y
RECURSIVE BigSubFrom(_, _, _, _)
BigSubFrom(X, Y, borrow, i) ==
  IF i > Len(X) THEN <<>>
  ELSE Bind(X[i] - Y[i] - borrow, LAMBDA t :
         IF t < 0 THEN <<t + LimbBase>> \o BigSubFrom(X, Y, 1, i + 1)
         ELSE <<t>> \o BigSubFrom(X, Y, 0, i + 1))

BigSub(X, Y) == BigSubFrom(X, Y, 0, 1)

RECURSIVE LimbFromBits(_, _, _)
LimbFromBits(X, from, b) ==
  IF b = 14 THEN 0
  ELSE BitOf(X, from + b) * (2^b) + LimbFromBits(X, from, b + 1)

\* floor(X / 2^s)
BigShr(X, s) == [j \in 1..Len(X) |-> LimbFromBits(X, s + 14 * (j - 1), 0)]

\* X * 2^s
BigShl(X, s) == [j \in 1..Len(X) |-> LimbFromBits(X, 14 * (j - 1) - s, 0)]

\* some bit below position s is set
AnyBitBelow(X, s) == \E i \in 0..(s - 1) : BitOf(X, i) = 1

\* the value of a limb vector of at most 30 bits
BigToInt(X) == X[1] + X[2] * LimbBase + (X[3] % 4) * LimbBase * LimbBase

(***************************************************************************)
(* Round-to-nearest-even of the exact positive value (X + f) * 2^e, where  *)
(* 0 <= f < 1 and sticky says f > 0, to a 53 bit significand.              *)
(***************************************************************************)
F64Round(X, sticky, e) ==
  Bind(BitLen(X), LAMBDA len :
    IF len <= 53 THEN [m |-> X, e |-> e]
    ELSE Bind(BigShr(X, len - 53), LAMBDA keep :
           LET s     == len - 53
               guard == BitOf(X, s - 1) = 1
               rest  == sticky \/ AnyBitBelow(X, s - 1)
               up    == guard /\ (rest \/ BitOf(keep, 0) = 1)
           IN  [m |-> IF up THEN BigInc(keep) ELSE keep, e |-> e + s]))

\* a double with exactly 53 significant bits
F64Normal(v) ==
  Bind(BitLen(v.m), LAMBDA len :
    IF len >= 53 THEN v ELSE [m |-> BigShl(v.m, 53 - len), e |-> v.e - (53 - len)])

\* n as f64, for 0 < n < 2^30 (exact)
F64FromInt(n) == [m |-> BigOfInt(n), e |-> 0]

(***************************************************************************)
(* The long division behind a / b, one quotient bit per step.              *)
(***************************************************************************)
\* one step of the restoring division: shift the next numerator bit in
DivStep(D, st, bit) ==
  Bind(BigDoublePlus(st.r, bit), LAMBDA R2 :
    IF BigGeq(R2, D)
    THEN [r |-> BigSub(R2, D), q |-> BigDoublePlus(st.q, 1)]
    ELSE [r |-> R2, q |-> BigDoublePlus(st.q, 0)])

\* bit i of N * 2^56
NumBit(N, i) == IF i >= 56 THEN BitOf(N, i - 56) ELSE 0

\* the steps for the k numerator bits i, i - 1, ..., i - k + 1
RECURSIVE DivBits(_, _, _, _, _)
DivBits(N, D, st, i, k) ==
  IF k = 0 THEN st
  ELSE Bind(DivStep(D, st, NumBit(N, i)), LAMBDA s : DivBits(N, D, s, i - 1, k - 1))

\* the steps for the 8 * j lowest numerator bits, the highest first
RECURSIVE DivBytes(_, _, _, _)
DivBytes(N, D, st, j) ==
  IF j = 0 THEN st
  ELSE Bind(DivBits(N, D, st, 8 * j - 1, 8), LAMBDA s : DivBytes(N, D, s, j - 1))

\* floor(N * 2^56 / D) and the remainder: 112 numerator bits
DivSteps(N, D) == DivBytes(N, D, [r |-> BigZero, q |-> BigZero], 14)

\* the rounded quotient of two doubles of 53 significant bits each
DivNormal(na, nb) ==
  Bind(DivSteps(na.m, nb.m), LAMBDA d :
       F64Round(d.q, ~BigIsZero(d.r), na.e - nb.e - 56))

\* a / b for positive doubles: the quotient of a.m * 2^56 by b.m (taken as 112
\* numerator bits, the 3 highest of them zero), rounded to nearest even
F64Div(a, b) ==
  Bind(a, LAMBDA va :
  Bind(b, LAMBDA vb :
  Bind(F64Normal(va), LAMBDA na :
  Bind(F64Normal(vb), LAMBDA nb : DivNormal(na, nb)))))

\* n * r for an integer 0 <= n < 2^14 (exact as a double) and a positive double r
F64MulInt(n, r) ==
  Bind(r, LAMBDA vr :
  Bind(F64Normal(vr), LAMBDA nr :
  Bind(BigMulSmall(nr.m, n), LAMBDA p : F64Round(p, FALSE, nr.e))))

\* The integer part of a positive double, or -1 when it is 2^28 or more
\* (beyond every integer type of the model).
F64Trunc(v) ==
  Bind(v, LAMBDA d :
    IF BigIsZero(d.m) THEN 0
    ELSE IF BitLen(d.m) + d.e > 28 THEN -1
    ELSE Bind(IF d.e >= 0 THEN BigShl(d.m, d.e) ELSE BigShr(d.m, -d.e), BigToInt))

(***************************************************************************)
(* Element types.  Number is any Num + NumCast + PartialOrd type; the      *)
(* model takes i8 and u8 for the integers and f32 for the floats.  An f32  *)
(* lane is held as a count of quarters (1.5 is 6, 250.5 is 1002), NaN as   *)
(* a code outside every modelled value; the f32 values of the model are    *)
(* multiples of 1/4 of small magnitude, on which +, - and * below are      *)
(* exact as long as the result is such a multiple.                         *)
(***************************************************************************)
IntTypes == {"i8", "u8"}

NumTypes == IntTypes \cup {"f32"}

IntMin(ty) == IF ty = "i8" THEN -128 ELSE 0

IntMax(ty) == IF ty = "i8" THEN 127 ELSE 255

NaN == -(2^20)

\* the integer part of q quarters, rounded toward zero
TruncQuarters(q) == IF q >= 0 THEN q \div 4 ELSE -((-q) \div 4)

None == [some |-> FALSE, v |-> 0]

Some(x) == [some |-> TRUE, v |-> x]

\* a cast that rounds a float to the nearest integer instead of truncating it
NumCastRound(x, from, to) ==
  LET n == IF x >= 0 THEN (x + 2) \div 4 ELSE -((2 - x) \div 4)
  IN  IF from = "f32"
      THEN IF to = "f32" THEN Some(x)
           ELSE IF x = NaN THEN None
           ELSE IF IntMin(to) <= n /\ n <= IntMax(to) THEN Some(n) ELSE None
      ELSE IF to = "f32" THEN Some(4 * x)
           ELSE IF IntMin(to) <= x /\ x <= IntMax(to) THEN Some(x) ELSE None

\* num_traits NumCast: NO::from(x) for x of type from
NumCastFrom(x, from, to) ==
  IF from = "f32"
  THEN IF to = "f32" THEN Some(x)
       ELSE IF x = NaN THEN None
       ELSE IF IntMin(to) <= TruncQuarters(x) /\ TruncQuarters(x) <= IntMax(to)
            THEN Some(TruncQuarters(x)) ELSE None
  ELSE IF to = "f32" THEN Some(4 * x)
       ELSE IF IntMin(to) <= x /\ x <= IntMax(to) THEN Some(x) ELSE None

\* a / b and a % b of the integer primitives: the quotient rounds toward zero
TruncDiv(a, b) ==
  IF (a >= 0) = (b >= 0) THEN (IF a >= 0 THEN a ELSE -a) \div (IF b >= 0 THEN b ELSE -b)
  ELSE -((IF a >= 0 THEN a ELSE -a) \div (IF b >= 0 THEN b ELSE -b))

Ops == {"add", "sub", "mul", "div", "rem"}

Exact(op, a, b) ==
  CASE op = "add" -> a + b
    [] op = "sub" -> a - b
    [] op = "mul" -> a * b
    [] op = "div" -> TruncDiv(a, b)
    [] op = "rem" -> a - b * TruncDiv(a, b)

Wrap(ty, r) == ((r - IntMin(ty)) % 256) + IntMin(ty)

Panic(why) == [ok |-> FALSE, v |-> 0, why |-> why]

Ok(x) == [ok |-> TRUE, v |-> x, why |-> "none"]

(***************************************************************************)
(* a.$METHOD(b) on the element type.  On the integers + - * overflow       *)
(* panics when overflow checks are compiled in and wraps otherwise; / and  *)
(* % panic on a zero divisor and on MIN / -1 in every build.  On f32 only  *)
(* + - * are modelled.                                                     *)
(***************************************************************************)
NumOp(op, ty, a, b, checks) ==
  IF ty = "f32"
  THEN IF a = NaN \/ b = NaN THEN Ok(NaN)
       ELSE IF op = "mul" THEN Ok((a * b) \div 4)
       ELSE Ok(Exact(op, a, b))
  ELSE IF op \in {"div", "rem"} /\ b = 0 THEN Panic("divide by zero")
       ELSE IF op \in {"div", "rem"} /\ a = IntMin(ty) /\ b = -1 THEN Panic("overflow")
       ELSE LET r == Exact(op, a, b)
            IN  IF IntMin(ty) <= r /\ r <= IntMax(ty) THEN Ok(r)
                ELSE IF checks THEN Panic("overflow")
                ELSE Ok(Wrap(ty, r))

\* the ops the model applies to lanes of type ty
OpsOf(ty) == IF ty = "f32" THEN {"add", "sub", "mul"} ELSE Ops

(***************************************************************************)
(* Units.  A unit is a value of a tag type.  The prefix units are zero     *)
(* sized (one value each, id 0) and keep the default is_self_compatible;   *)
(* UserUnit stands for a downstream tag type that carries an id and        *)
(* overrides is_self_compatible to compare it.                             *)
(***************************************************************************)
PrefixTypes == {"()", "Decimeter", "Centimeter"}

UnitTypes == PrefixTypes \cup {"UserUnit"}

UnitsOf(t) ==
  IF t = "UserUnit" THEN {[type |-> t, id |-> i] : i \in 0..MaxUnitId}
  ELSE {[type |-> t, id |-> 0]}

AllUnits == UNION {UnitsOf(t) : t \in UnitTypes}

\* U::default()
DefaultUnit(t) == [type |-> t, id |-> 0]

NoUnit == DefaultUnit("()")

\* Unit::is_self_compatible
is_self_compatible(u, rhs) ==
  IF u.type = "UserUnit" THEN u.id = rhs.id ELSE TRUE

\* BasePrefix::base_factor, the literal as a fraction
FactorLiteral(t) ==
  CASE t = "()"         -> <<1, 1>>
    [] t = "Decimeter"  -> <<1, 10>>
    [] t = "Centimeter" -> <<1, 100>>

\* the f64 the literal denotes: the fraction correctly rounded
base_factor ==
  [t \in PrefixTypes |->
     F64Div(F64FromInt(FactorLiteral(t)[1]), F64FromInt(FactorLiteral(t)[2]))]

\* the ratio taken the wrong way round
ratio_swapped ==
  [F \in PrefixTypes, T \in PrefixTypes |-> F64Div(base_factor[T], base_factor[F])] @@ << >>

\* let ratio = F::base_factor() / T::base_factor()
ratio ==
  [F \in PrefixTypes, T \in PrefixTypes |-> F64Div(base_factor[F], base_factor[T])] @@ << >>

\* a check that no build compiles out
check_always(v0, v1) == ~is_self_compatible(v0, v1)

(***************************************************************************)
(* check_compatible: assert!(compatible), or debug_assert!(compatible)     *)
(* under the feature debug_unit_check.  TRUE when it panics.               *)
(***************************************************************************)
check_compatible(v0, v1) ==
  LET compatible == is_self_compatible(v0, v1)
  IN  IF cfg.debug_unit_check
      THEN cfg.debug_assertions /\ ~compatible
      ELSE ~compatible

\* the integer overflow checks are compiled in
OverflowChecks == cfg.debug_assertions

(***************************************************************************)
(* Value<N, U> and Vec2D<N, U>.  ty is the element type N (static in the   *)
(* program), unit the value of the tag type U.                             *)
(***************************************************************************)
\* Value::new_u
ValueNewU(ty, value, unit) == [ty |-> ty, value |-> value, unit |-> unit]

\* Vec2D::new_u
Vec2DNewU(ty, x, y, unit) == [ty |-> ty, value |-> <<x, y>>, unit |-> unit]

\* impl $TRAIT for Value<T, U>
ValueOp(op, self, rhs) ==
  IF check_compatible(self.unit, rhs.unit) THEN RetPanic("check_compatible")
  ELSE LET r == NumOp(op, self.ty, self.value, rhs.value, OverflowChecks)
       IN  IF r.ok THEN RetVal(ValueNewU(self.ty, r.v, self.unit)) ELSE RetPanic(r.why)

\* impl $TRAIT<T> for Value<T, U>
ValueOpNum(op, self, rhs) ==
  LET r == NumOp(op, self.ty, self.value, rhs, OverflowChecks)
  IN  IF r.ok THEN RetVal(ValueNewU(self.ty, r.v, self.unit)) ELSE RetPanic(r.why)

\* impl $TRAIT_ASSIGN<Value<T, U>> for Value<T, U>: the new *self
ValueOpAssign(op, self, rhs) == ValueOp(op, self, rhs)

\* impl $TRAIT_ASSIGN<T> for Value<T, U>: the new *self
ValueOpAssignNum(op, self, rhs) == ValueOpNum(op, self, rhs)

\* Value::lerp: ((other.value - self.value) * t) + self.value
ValueLerp(self, other, t) ==
  IF check_compatible(self.unit, other.unit) THEN RetPanic("check_compatible")
  ELSE LET d == NumOp("sub", self.ty, other.value, self.value, OverflowChecks)
           m == NumOp("mul", self.ty, d.v, t, OverflowChecks)
           a == NumOp("add", self.ty, m.v, self.value, OverflowChecks)
       IN  IF ~d.ok THEN RetPanic(d.why)
           ELSE IF ~m.ok THEN RetPanic(m.why)
           ELSE IF ~a.ok THEN RetPanic(a.why)
           ELSE RetVal(ValueNewU(self.ty, a.v, self.unit))

\* Value::any_unit
ValueAnyUnit(self) == ValueNewU(self.ty, self.value, NoUnit)

\* impl $TRAIT for Vec2D<T, U>
Vec2DOp(op, self, rhs) ==
  IF check_compatible(self.unit, rhs.unit) THEN RetPanic("check_compatible")
  ELSE LET x == NumOp(op, self.ty, self.value[1], rhs.value[1], OverflowChecks)
           y == NumOp(op, self.ty, self.value[2], rhs.value[2], OverflowChecks)
       IN  IF ~x.ok THEN RetPanic(x.why)
           ELSE IF ~y.ok THEN RetPanic(y.why)
           ELSE RetVal(Vec2DNewU(self.ty, x.v, y.v, self.unit))

\* an operator against a bare number that reaches the x lane only
Vec2DOpNumXOnly(op, self, rhs) ==
  LET x == NumOp(op, self.ty, self.value[1], rhs, OverflowChecks)
  IN  IF ~x.ok THEN RetPanic(x.why)
      ELSE RetVal(Vec2DNewU(self.ty, x.v, self.value[2], self.unit))

\* impl $TRAIT<T> for Vec2D<T, U>
Vec2DOpNum(op, self, rhs) ==
  LET x == NumOp(op, self.ty, self.value[1], rhs, OverflowChecks)
      y == NumOp(op, self.ty, self.value[2], rhs, OverflowChecks)
  IN  IF ~x.ok THEN RetPanic(x.why)
      ELSE IF ~y.ok THEN RetPanic(y.why)
      ELSE RetVal(Vec2DNewU(self.ty, x.v, y.v, self.unit))

\* impl $TRAIT_ASSIGN<Vec2D<T, U>> for Vec2D<T, U>: the new *self
Vec2DOpAssign(op, self, rhs) == Vec2DOp(op, self, rhs)

\* impl $TRAIT_ASSIGN<T> for Vec2D<T, U>: the new *self
Vec2DOpAssignNum(op, self, rhs) == Vec2DOpNum(op, self, rhs)

\* Vec2D::move_x
move_x(self, other) ==
  IF check_compatible(self.unit, other.unit) THEN RetPanic("check_compatible")
  ELSE RetVal(Vec2DNewU(self.ty, other.value[1], self.value[2], self.unit))

\* Vec2D::move_y
move_y(self, other) ==
  IF check_compatible(self.unit, other.unit) THEN RetPanic("check_compatible")
  ELSE RetVal(Vec2DNewU(self.ty, self.value[1], other.value[2], self.unit))

\* a try_cast that gives up only when both lanes fail
Vec2DTryCastPartial(self, NO) ==
  LET x == NumCastFrom(self.value[1], self.ty, NO)
      y == NumCastFrom(self.value[2], self.ty, NO)
  IN  IF ~x.some /\ ~y.some THEN None
      ELSE Some([ty |-> NO, value |-> <<x.v, y.v>>, unit |-> self.unit])

\* Vec2D::try_cast: NO::from(self.value[0])?, NO::from(self.value[1])?
Vec2DTryCast(self, NO) ==
  LET x == NumCastFrom(self.value[1], self.ty, NO)
      y == NumCastFrom(self.value[2], self.ty, NO)
  IN  IF ~x.some THEN None
      ELSE IF ~y.some THEN None
      ELSE Some(Vec2DNewU(NO, x.v, y.v, self.unit))

\* Vec2D::cast
Vec2DCast(self, NO) == Expect(Vec2DTryCast(self, NO), "Failed to cast number")

(***************************************************************************)
(* N::from_f64(lane.to_f64()? * ratio)? for an integer element type N: the *)
(* lane is exact as a double, the product is rounded to a double, and      *)
(* from_f64 keeps its integer part when that lies in N, and is None        *)
(* otherwise.                                                              *)
(***************************************************************************)
ConvertLane(n, ty, F, T) ==
  Bind(F64Trunc(F64MulInt(IF n >= 0 THEN n ELSE -n, ratio[F, T])), LAMBDA mag :
    LET r == IF n >= 0 THEN mag ELSE -mag
    IN  IF mag < 0 THEN None
        ELSE IF IntMin(ty) <= r /\ r <= IntMax(ty) THEN Some(r)
        ELSE None)

\* impl UnitCompatibility<N, F> for T: convert_pos2(&self, pos)
convert_pos2(to, pos) ==
  LET x == ConvertLane(pos.value[1], pos.ty, pos.unit.type, to.type)
      y == ConvertLane(pos.value[2], pos.ty, pos.unit.type, to.type)
  IN  IF ~x.some THEN None
      ELSE IF ~y.some THEN None
      ELSE Some(Vec2DNewU(pos.ty, x.v, y.v, DefaultUnit(to.type)))

\* Vec2D::try_convert_u
try_convert_u(self, to) == convert_pos2(to, self)

\* Vec2D::try_convert::<UO>
try_convert(self, UO) == try_convert_u(self, DefaultUnit(UO))

\* Vec2D::convert_u
convert_u(self, to) == Expect(try_convert_u(self, to), "Failed to convert units.")

\* Vec2D::convert::<UO>
convert(self, UO) == Expect(try_convert(self, UO), "Failed to convert units.")

\* Vec2D::any_unit
any_unit(self) == Vec2DNewU(self.ty, self.value[1], self.value[2], NoUnit)

(***************************************************************************)
(* The closures the caller hands to map, map_x and map_y.                  *)
(***************************************************************************)
Closures == {"zero", "same", "is_zero"}

Apply(func, ty, n) ==
  CASE func = "zero"    -> 0
    [] func = "same"    -> n
    [] func = "is_zero" -> IF n = 0 THEN (IF ty = "f32" THEN 4 ELSE 1) ELSE 0

\* Vec2D::map (the closures of the model keep the element type)
map(self, func) ==
  Vec2DNewU(self.ty, Apply(func, self.ty, self.value[1]),
            Apply(func, self.ty, self.value[2]), self.unit)

\* a map_x that drops the unit
map_x_untagged(self, func) ==
  Vec2DNewU(self.ty, Apply(func, self.ty, self.value[1]), self.value[2], NoUnit)

\* Vec2D::map_x
map_x(self, func) ==
  Vec2DNewU(self.ty, Apply(func, self.ty, self.value[1]), self.value[2], self.unit)

\* Vec2D::map_y
map_y(self, func) ==
  Vec2DNewU(self.ty, self.value[1], Apply(func, self.ty, self.value[2]), self.unit)

\* Vec2D::add_vals, sub_vals, mul_vals, div_vals
Vec2DVals(op, self) ==
  LET r == NumOp(op, self.ty, self.value[1], self.value[2], OverflowChecks)
  IN  IF r.ok THEN RetVal(ValueNewU(self.ty, r.v, self.unit)) ELSE RetPanic(r.why)

\* Vec2D::x
Vec2DX(self) == ValueNewU(self.ty, self.value[1], self.unit)

\* Vec2D::y
Vec2DY(self) == ValueNewU(self.ty, self.value[2], self.unit)

\* Vec2D::xy
Vec2DXY(self) == self

\* Vec2D::yx
Vec2DYX(self) == Vec2DNewU(self.ty, self.value[2], self.value[1], self.unit)

\* Vec2D::min (N: Ord)
Vec2DMin(self) ==
  ValueNewU(self.ty, IF self.value[1] <= self.value[2] THEN self.value[1] ELSE self.value[2],
            self.unit)

\* Vec2D::max (N: Ord)
Vec2DMax(self) ==
  ValueNewU(self.ty, IF self.value[2] >= self.value[1] THEN self.value[2] ELSE self.value[1],
            self.unit)

\* std::cmp::Ordering as i8
Less == -1

Equal == 0

Greater == 1

\* Ord::cmp on an integer primitive
NumCmp(a, b) == IF a < b THEN Less ELSE IF a > b THEN Greater ELSE Equal

\* PartialOrd::partial_cmp on the element type: undefined on a NaN
NumPartialCmp(ty, a, b) ==
  IF ty = "f32" /\ (a = NaN \/ b = NaN) THEN None ELSE Some(NumCmp(a, b))

\* PartialEq::eq on the element type: a NaN equals nothing
NumEq(ty, a, b) == IF ty = "f32" /\ (a = NaN \/ b = NaN) THEN FALSE ELSE a = b

\* if ordering > 0 { Greater } else if ordering < 0 { Less } else { Equal }
OrderingOf(ordering) ==
  IF ordering > 0 THEN Greater ELSE IF ordering < 0 THEN Less ELSE Equal

\* impl PartialEq for Vec2D: self.value == other.value
Vec2DEq(self, other) ==
  NumEq(self.ty, self.value[1], other.value[1]) /\ NumEq(self.ty, self.value[2], other.value[2])

\* a lexicographic order: x first, then y
Vec2DCmpLex(self, other) ==
  IF NumCmp(self.value[1], other.value[1]) # Equal
  THEN NumCmp(self.value[1], other.value[1])
  ELSE NumCmp(self.value[2], other.value[2])

\* impl Ord for Vec2D
Vec2DCmp(self, other) ==
  LET x == NumCmp(self.value[1], other.value[1])
      y == NumCmp(self.value[2], other.value[2])
  IN  OrderingOf(x + y)

\* impl PartialOrd for Vec2D
Vec2DPartialCmp(self, other) ==
  LET x == NumPartialCmp(self.ty, self.value[1], other.value[1])
      y == NumPartialCmp(self.ty, self.value[2], other.value[2])
  IN  IF ~x.some THEN None
      ELSE IF ~y.some THEN None
      ELSE Some(OrderingOf(x.v + y.v))

(***************************************************************************)
(* Vec2<N>, the untagged pair behind Rect<N>: <<x, y>>.  Its arithmetic    *)
(* is componentwise on the element type and its try_cast casts both lanes. *)
(***************************************************************************)
Vec2Op(op, ty, a, b) ==
  LET x == NumOp(op, ty, a[1], b[1], OverflowChecks)
      y == NumOp(op, ty, a[2], b[2], OverflowChecks)
  IN  IF ~x.ok THEN Panic(x.why)
      ELSE IF ~y.ok THEN Panic(y.why)
      ELSE Ok(<<x.v, y.v>>)

\* Vec2's ==: both lanes equal
Vec2Eq(a, b) == a[1] = b[1] /\ a[2] = b[2]

\* Vec2's cmp: the sign of the sum of the codes of the two lane comparisons
Vec2Cmp(a, b) == OrderingOf(NumCmp(a[1], b[1]) + NumCmp(a[2], b[2]))

\* Vec2 against a bare number: the number is broadcast to both lanes
Vec2OpNum(op, ty, a, n) == Vec2Op(op, ty, a, <<n, n>>)

Vec2TryCast(v, from, to) ==
  LET x == NumCastFrom(v[1], from, to)
      y == NumCastFrom(v[2], from, to)
  IN  IF ~x.some THEN None
      ELSE IF ~y.some THEN None
      ELSE Some(<<x.v, y.v>>)

(***************************************************************************)
(* Rect<N>: origin and size, with no constraint on the sign of size.       *)
(***************************************************************************)
\* Rect::new
RectNew(ty, origin, size) == [ty |-> ty, origin |-> origin, size |-> size]

\* a constructor that takes max for the size
new_min_max_no_sub(ty, min, max) == RetVal(RectNew(ty, min, max))

\* Rect::new_min_max: origin: min, size: max - min
new_min_max(ty, min, max) ==
  LET size == Vec2Op("sub", ty, max, min)
  IN  IF size.ok THEN RetVal(RectNew(ty, min, size.v)) ELSE RetPanic(size.why)

\* impl From<Box2D<T, U>> for Rect<T>
FromBox2D(ty, b) == new_min_max(ty, b.min, b.max)

\* Rect::min
RectMin(self) == self.origin

\* Rect::max: self.origin() + self.size()
RectMax(self) == Vec2Op("add", self.ty, self.origin, self.size)

\* a containment test that leaves the max edges out
contains_pos_half_open(self, pos) ==
  LET min == RectMin(self)
      max == RectMax(self)
  IN  IF ~max.ok THEN RetPanic(max.why)
      ELSE RetVal(min[1] <= pos[1] /\ pos[1] < max.v[1] /\
                  min[2] <= pos[2] /\ pos[2] < max.v[2])

\* Rect::contains_pos
contains_pos(self, pos) ==
  LET min == RectMin(self)
      max == RectMax(self)
  IN  IF ~max.ok THEN RetPanic(max.why)
      ELSE RetVal(min[1] <= pos[1] /\ pos[1] <= max.v[1] /\
                  min[2] <= pos[2] /\ pos[2] <= max.v[2])

\* Rect::contains_rect: rect.max() is computed only when rect.min() is inside
contains_rect(self, rect) ==
  LET first == contains_pos(self, RectMin(rect))
      rmax  == RectMax(rect)
  IN  IF first.kind = "panic" THEN first
      ELSE IF ~first.val THEN RetVal(FALSE)
      ELSE IF ~rmax.ok THEN RetPanic(rmax.why)
      ELSE contains_pos(self, rmax.v)

\* an intersection test on open intervals
intersects_strict(self, other) ==
  LET s_max == RectMax(self)
      o_max == RectMax(other)
  IN  IF ~s_max.ok THEN RetPanic(s_max.why)
      ELSE IF ~o_max.ok THEN RetPanic(o_max.why)
      ELSE RetVal(self.origin[1] < o_max.v[1] /\ s_max.v[1] > other.origin[1] /\
                  self.origin[2] < o_max.v[2] /\ s_max.v[2] > other.origin[2])

\* an intersection test that looks at the x axis only
intersects_x_only(self, other) ==
  LET s_max == RectMax(self)
      o_max == RectMax(other)
  IN  IF ~s_max.ok THEN RetPanic(s_max.why)
      ELSE IF ~o_max.ok THEN RetPanic(o_max.why)
      ELSE RetVal(self.origin[1] <= o_max.v[1] /\ s_max.v[1] >= other.origin[1])

\* Rect::intersects_rect: the four corners are computed first
intersects_rect(self, other) ==
  LET s_min == RectMin(self)
      s_max == RectMax(self)
      o_min == RectMin(other)
      o_max == RectMax(other)
  IN  IF ~s_max.ok THEN RetPanic(s_max.why)
      ELSE IF ~o_max.ok THEN RetPanic(o_max.why)
      ELSE RetVal(s_min[1] <= o_max.v[1] /\ s_max.v[1] >= o_min[1] /\
                  s_min[2] <= o_max.v[2] /\ s_max.v[2] >= o_min[2])

\* Rect::try_cast: origin.try_cast()?, size.try_cast()?
RectTryCast(self, NO) ==
  LET origin == Vec2TryCast(self.origin, self.ty, NO)
      size   == Vec2TryCast(self.size, self.ty, NO)
  IN  IF ~origin.some THEN None
      ELSE IF ~size.some THEN None
      ELSE Some(RectNew(NO, origin.v, size.v))

\* Rect::cast
RectCast(self, NO) ==
  LET origin == Vec2TryCast(self.origin, self.ty, NO)
      size   == Vec2TryCast(self.size, self.ty, NO)
  IN  IF ~origin.some THEN RetPanic("Failed to cast origin")
      ELSE IF ~size.some THEN RetPanic("Failed to cast size")
      ELSE RetVal(RectNew(NO, origin.v, size.v))

\* Ord::max and Ord::min on the element type
OrdMax(a, b) == IF b >= a THEN b ELSE a

OrdMin(a, b) == IF a <= b THEN a ELSE b

\* Rect::intersection: the min of the max corners is stored in the size field
intersection(self, other) ==
  LET min   == RectMin(self)
      max   == RectMax(self)
      o_min == RectMin(other)
      o_max == RectMax(other)
  IN  IF ~max.ok THEN RetPanic(max.why)
      ELSE IF ~o_max.ok THEN RetPanic(o_max.why)
      ELSE RetVal(RectNew(self.ty,
                          <<OrdMax(min[1], o_min[1]), OrdMax(min[2], o_min[2])>>,
                          <<OrdMin(max.v[1], o_max.v[1]), OrdMin(max.v[2], o_max.v[2])>>))

\* Rect::is_negative
is_negative(self) ==
  LET min == RectMin(self)
      max == RectMax(self)
  IN  IF ~max.ok THEN RetPanic(max.why)
      ELSE RetVal(max.v[1] < min[1] \/ max.v[2] < min[2])

\* an emptiness test that misses the zero extents
is_empty_negative_only(self) == is_negative(self)

\* Rect::is_empty
is_empty(self) ==
  LET min == RectMin(self)
      max == RectMax(self)
  IN  IF ~max.ok THEN RetPanic(max.why)
      ELSE RetVal(~(max.v[1] > min[1] /\ max.v[2] > min[2]))

\* N::from_u8(2).unwrap()
Two == 2

\* Rect::shrink: origin += value / 2, then size -= value / 2 twice
shrink(self, value) ==
  LET half_value == Vec2OpNum("div", self.ty, value, Two)
      origin     == Vec2Op("add", self.ty, self.origin, half_value.v)
      size1      == Vec2Op("sub", self.ty, self.size, half_value.v)
      size2      == Vec2Op("sub", self.ty, size1.v, half_value.v)
  IN  IF ~half_value.ok THEN RetPanic(half_value.why)
      ELSE IF ~origin.ok THEN RetPanic(origin.why)
      ELSE IF ~size1.ok THEN RetPanic(size1.why)
      ELSE IF ~size2.ok THEN RetPanic(size2.why)
      ELSE RetVal(RectNew(self.ty, origin.v, size2.v))

\* Rect::expand: origin -= value / 2, then size += value / 2 twice
expand(self, value) ==
  LET half_value == Vec2OpNum("div", self.ty, value, Two)
      origin     == Vec2Op("sub", self.ty, self.origin, half_value.v)
      size1      == Vec2Op("add", self.ty, self.size, half_value.v)
      size2      == Vec2Op("add", self.ty, size1.v, half_value.v)
  IN  IF ~half_value.ok THEN RetPanic(half_value.why)
      ELSE IF ~origin.ok THEN RetPanic(origin.why)
      ELSE IF ~size1.ok THEN RetPanic(size1.why)
      ELSE IF ~size2.ok THEN RetPanic(size2.why)
      ELSE RetVal(RectNew(self.ty, origin.v, size2.v))

\* Rect::center: self.origin() + (self.size() / 2)
center(self) ==
  LET half == Vec2OpNum("div", self.ty, self.size, Two)
      c    == Vec2Op("add", self.ty, self.origin, half.v)
  IN  IF ~half.ok THEN RetPanic(half.why)
      ELSE IF ~c.ok THEN RetPanic(c.why)
      ELSE RetVal(c.v)

\* impl $TRAIT for Rect<T>: origin first, then size
RectOp(op, self, rhs) ==
  LET origin == Vec2Op(op, self.ty, self.origin, rhs.origin)
      size   == Vec2Op(op, self.ty, self.size, rhs.size)
  IN  IF ~origin.ok THEN RetPanic(origin.why)
      ELSE IF ~size.ok THEN RetPanic(size.why)
      ELSE RetVal(RectNew(self.ty, origin.v, size.v))

\* an operator against a Vec2 that moves the origin and leaves the size
RectOpVecOriginOnly(op, self, rhs) ==
  LET origin == Vec2Op(op, self.ty, self.origin, rhs)
  IN  IF ~origin.ok THEN RetPanic(origin.why)
      ELSE RetVal(RectNew(self.ty, origin.v, self.size))

\* impl $TRAIT<Vec2<T>> for Rect<T>
RectOpVec(op, self, rhs) ==
  LET origin == Vec2Op(op, self.ty, self.origin, rhs)
      size   == Vec2Op(op, self.ty, self.size, rhs)
  IN  IF ~origin.ok THEN RetPanic(origin.why)
      ELSE IF ~size.ok THEN RetPanic(size.why)
      ELSE RetVal(RectNew(self.ty, origin.v, size.v))

\* impl $TRAIT<T> for Rect<T>
RectOpNum(op, self, rhs) ==
  LET origin == Vec2OpNum(op, self.ty, self.origin, rhs)
      size   == Vec2OpNum(op, self.ty, self.size, rhs)
  IN  IF ~origin.ok THEN RetPanic(origin.why)
      ELSE IF ~size.ok THEN RetPanic(size.why)
      ELSE RetVal(RectNew(self.ty, origin.v, size.v))

\* impl $TRAIT_ASSIGN<Rect<T>> for Rect<T>: the new *self
RectOpAssign(op, self, rhs) == RectOp(op, self, rhs)

\* impl $TRAIT_ASSIGN<Vec2<T>> for Rect<T>: the new *self
RectOpAssignVec(op, self, rhs) == RectOpVec(op, self, rhs)

\* impl $TRAIT_ASSIGN<T> for Rect<T>: the new *self
RectOpAssignNum(op, self, rhs) == RectOpNum(op, self, rhs)

\* impl PartialEq for Rect
RectEq(self, other) == Vec2Eq(self.origin, other.origin) /\ Vec2Eq(self.size, other.size)

\* impl Ord for Rect: the ordering of the origins is compared with the
\* ordering of the sizes, Less < Equal < Greater
RectCmp(self, other) ==
  LET origin == Vec2Cmp(self.origin, other.origin)
      size   == Vec2Cmp(self.size, other.size)
  IN  NumCmp(origin, size)

(***************************************************************************)
(* The arguments the caller draws.                                        *)
(***************************************************************************)
Lanes(ty) ==
  CASE ty = "i8"  -> (-MaxLane..MaxLane) \cup {IntMin(ty), IntMax(ty)}
    [] ty = "u8"  -> (0..MaxLane) \cup {IntMax(ty)}
    [] ty = "f32" -> {2 * k : k \in -MaxLane..MaxLane} \cup {NaN}

SmallLanes(ty) ==
  CASE ty = "i8"  -> -MaxLane..MaxLane
    [] ty = "u8"  -> 0..MaxLane
    [] ty = "f32" -> {2 * k : k \in 0..MaxLane}

\* the receivers of a given unit
Vecs(ty, u) == {Vec2DNewU(ty, a, b, u) : a \in Lanes(ty), b \in SmallLanes(ty)}

\* the right operands of a given unit
RhsVecs(ty, u) == {Vec2DNewU(ty, a, b, u) : a \in SmallLanes(ty), b \in SmallLanes(ty)}

Values(ty, u) == {ValueNewU(ty, a, u) : a \in Lanes(ty)}

RhsValues(ty, u) == {ValueNewU(ty, a, u) : a \in SmallLanes(ty)}

\* the element types the arithmetic is called on
ArithTypes == {"i8", "f32"}

\* the lanes the casts are called on: 250.5, 255.5 and 256.0 among the f32
CastLanes(ty) ==
  IF ty = "f32" THEN Lanes(ty) \cup {-4, 1002, 1022, 1024} ELSE Lanes(ty)

\* the lanes the unit conversions are called on
ConvertLanes(ty) ==
  IF ty = "u8" THEN Lanes(ty) \cup {10, 100, 250} ELSE Lanes(ty) \cup {-10, 10, 100}

\* the coordinates the rectangles are drawn from
Coords == -MaxCoord..MaxCoord

Points == {<<x, y>> : x \in Coords, y \in Coords}

\* corners next to the ends of i8, where origin + size and max - min overflow
EdgePoints == {<<IntMax("i8"), 0>>, <<0, IntMin("i8")>>}

Rects == {RectNew("i8", o, sz) : o \in Points \cup EdgePoints, sz \in Points}

\* the receivers of the two-rectangle tests
SelfRects == {r \in Rects : r.origin[2] = 0 \/ r.origin \in EdgePoints}

\* the amounts a rectangle is shrunk and expanded by
ResizeVecs == Points \cup {<<2, 2>>}

\* the lanes of the vectors that are compared
CmpLanes(ty) ==
  IF ty = "f32" THEN SmallLanes(ty) \cup {NaN} ELSE -MaxLane..(MaxLane + 1)

CmpVecs(ty, u) == {Vec2DNewU(ty, a, b, u) : a \in CmpLanes(ty), b \in CmpLanes(ty)}

\* the vectors that are compared three at a time
ChainVecs ==
  {Vec2DNewU("i8", a, b, NoUnit) : a \in -MaxLane..MaxLane, b \in -MaxLane..MaxLane}

\* the right operands of the rectangle operators
RhsRects == {RectNew("i8", <<x, x>>, <<y, y>>) : x \in Coords, y \in Coords}

\* the rectangles the casts are called on
CastRects(ty) ==
  {RectNew(ty, <<a, b>>, <<c, d>>) :
     a \in CastLanes(ty), b \in SmallLanes(ty), c \in SmallLanes(ty), d \in CastLanes(ty)}

(***************************************************************************)
(* Value<N, U>                                                             *)
(***************************************************************************)
CallValueOp ==
  /\ pc = "ready"
  /\ \E ty \in ArithTypes, u \in AllUnits :
       \E op \in OpsOf(ty), self \in Values(ty, u) :
         \E ru \in UnitsOf(u.type) : \E rhs \in RhsValues(ty, ru) :
           /\ call' = Call("Value::op", op, self, rhs, Nil)
           /\ outcome' = ValueOp(op, self, rhs)
  /\ pc' = "done"
  /\ UNCHANGED cfg

CallValueOpNum ==
  /\ pc = "ready"
  /\ \E ty \in ArithTypes, u \in AllUnits :
       \E op \in OpsOf(ty), self \in Values(ty, u), rhs \in SmallLanes(ty) :
         /\ call' = Call("Value::op_num", op, self, rhs, Nil)
         /\ outcome' = ValueOpNum(op, self, rhs)
  /\ pc' = "done"
  /\ UNCHANGED cfg

CallValueOpAssign ==
  /\ pc = "ready"
  /\ \E ty \in ArithTypes, u \in AllUnits :
       \E op \in OpsOf(ty), self \in Values(ty, u) :
         \E ru \in UnitsOf(u.type) : \E rhs \in RhsValues(ty, ru) :
           /\ call' = Call("Value::op_assign", op, self, rhs, Nil)
           /\ outcome' = ValueOpAssign(op, self, rhs)
  /\ pc' = "done"
  /\ UNCHANGED cfg

CallValueOpAssignNum ==
  /\ pc = "ready"
  /\ \E ty \in ArithTypes, u \in AllUnits :
       \E op \in OpsOf(ty), self \in Values(ty, u), rhs \in SmallLanes(ty) :
         /\ call' = Call("Value::op_assign_num", op, self, rhs, Nil)
         /\ outcome' = ValueOpAssignNum(op, self, rhs)
  /\ pc' = "done"
  /\ UNCHANGED cfg

CallValueLerp ==
  /\ pc = "ready"
  /\ \E u \in AllUnits : \E self \in RhsValues("f32", u), t \in SmallLanes("f32") :
       \E ru \in UnitsOf(u.type) : \E other \in RhsValues("f32", ru) :
         /\ call' = Call("Value::lerp", "none", self, other, t)
         /\ outcome' = ValueLerp(self, other, t)
  /\ pc' = "done"
  /\ UNCHANGED cfg

CallValueAnyUnit ==
  /\ pc = "ready"
  /\ \E ty \in NumTypes, u \in AllUnits : \E self \in Values(ty, u) :
       /\ call' = Call("Value::any_unit", "none", self, Nil, Nil)
       /\ outcome' = RetVal(ValueAnyUnit(self))
  /\ pc' = "done"
  /\ UNCHANGED cfg

(***************************************************************************)
(* Vec2D<N, U>                                                             *)
(***************************************************************************)
CallVec2DOp ==
  /\ pc = "ready"
  /\ \E ty \in ArithTypes, u \in AllUnits :
       \E op \in OpsOf(ty), self \in Vecs(ty, u) :
         \E ru \in UnitsOf(u.type) : \E rhs \in RhsVecs(ty, ru) :
           /\ call' = Call("Vec2D::op", op, self, rhs, Nil)
           /\ outcome' = Vec2DOp(op, self, rhs)
  /\ pc' = "done"
  /\ UNCHANGED cfg

CallVec2DOpNum ==
  /\ pc = "ready"
  /\ \E ty \in ArithTypes, u \in AllUnits :
       \E op \in OpsOf(ty), self \in Vecs(ty, u), rhs \in SmallLanes(ty) :
         /\ call' = Call("Vec2D::op_num", op, self, rhs, Nil)
         /\ outcome' = Vec2DOpNum(op, self, rhs)
  /\ pc' = "done"
  /\ UNCHANGED cfg

CallVec2DOpAssign ==
  /\ pc = "ready"
  /\ \E ty \in ArithTypes, u \in AllUnits :
       \E op \in OpsOf(ty), self \in RhsVecs(ty, u) :
         \E ru \in UnitsOf(u.type) : \E rhs \in RhsVecs(ty, ru) :
           /\ call' = Call("Vec2D::op_assign", op, self, rhs, Nil)
           /\ outcome' = Vec2DOpAssign(op, self, rhs)
  /\ pc' = "done"
  /\ UNCHANGED cfg

CallVec2DOpAssignNum ==
  /\ pc = "ready"
  /\ \E ty \in ArithTypes, u \in AllUnits :
       \E op \in OpsOf(ty), self \in Vecs(ty, u), rhs \in SmallLanes(ty) :
         /\ call' = Call("Vec2D::op_assign_num", op, self, rhs, Nil)
         /\ outcome' = Vec2DOpAssignNum(op, self, rhs)
  /\ pc' = "done"
  /\ UNCHANGED cfg

\* move_x, move_y
CallMove ==
  /\ pc = "ready"
  /\ \E ty \in NumTypes, u \in AllUnits : \E self \in RhsVecs(ty, u) :
       \E ru \in UnitsOf(u.type) : \E other \in RhsVecs(ty, ru) :
         \E fn \in {"Vec2D::move_x", "Vec2D::move_y"} :
           /\ call' = Call(fn, "none", self, other, Nil)
           /\ outcome' = IF fn = "Vec2D::move_x" THEN move_x(self, other)
                     ELSE move_y(self, other)
  /\ pc' = "done"
  /\ UNCHANGED cfg

\* map, map_x, map_y
CallMap ==
  /\ pc = "ready"
  /\ \E ty \in NumTypes, u \in AllUnits : \E self \in RhsVecs(ty, u), func \in Closures :
       \E fn \in {"Vec2D::map", "Vec2D::map_x", "Vec2D::map_y"} :
         /\ call' = Call(fn, "none", self, func, Nil)
         /\ outcome' = RetVal(CASE fn = "Vec2D::map"   -> map(self, func)
                            [] fn = "Vec2D::map_x" -> map_x(self, func)
                            [] fn = "Vec2D::map_y" -> map_y(self, func))
  /\ pc' = "done"
  /\ UNCHANGED cfg

\* add_vals, sub_vals, mul_vals, div_vals
CallVals ==
  /\ pc = "ready"
  /\ \E ty \in ArithTypes, u \in AllUnits :
       \E op \in OpsOf(ty) \ {"rem"}, self \in Vecs(ty, u) :
         /\ call' = Call("Vec2D::vals", op, self, Nil, Nil)
         /\ outcome' = Vec2DVals(op, self)
  /\ pc' = "done"
  /\ UNCHANGED cfg

\* x, y, xy, yx
CallLanes ==
  /\ pc = "ready"
  /\ \E ty \in NumTypes, u \in AllUnits : \E self \in Vecs(ty, u) :
       \E fn \in {"Vec2D::x", "Vec2D::y", "Vec2D::xy", "Vec2D::yx"} :
         /\ call' = Call(fn, "none", self, Nil, Nil)
         /\ outcome' = RetVal(CASE fn = "Vec2D::x"  -> Vec2DX(self)
                            [] fn = "Vec2D::y"  -> Vec2DY(self)
                            [] fn = "Vec2D::xy" -> Vec2DXY(self)
                            [] fn = "Vec2D::yx" -> Vec2DYX(self))
  /\ pc' = "done"
  /\ UNCHANGED cfg

\* min, max
CallMinMax ==
  /\ pc = "ready"
  /\ \E ty \in IntTypes, u \in AllUnits : \E self \in Vecs(ty, u) :
       \E fn \in {"Vec2D::min", "Vec2D::max"} :
         /\ call' = Call(fn, "none", self, Nil, Nil)
         /\ outcome' = RetVal(IF fn = "Vec2D::min" THEN Vec2DMin(self) ELSE Vec2DMax(self))
  /\ pc' = "done"
  /\ UNCHANGED cfg

CallAnyUnit ==
  /\ pc = "ready"
  /\ \E ty \in NumTypes, u \in AllUnits : \E self \in Vecs(ty, u) :
       /\ call' = Call("Vec2D::any_unit", "none", self, Nil, Nil)
       /\ outcome' = RetVal(any_unit(self))
  /\ pc' = "done"
  /\ UNCHANGED cfg

\* try_cast, cast
CallCast ==
  /\ pc = "ready"
  /\ \E ty \in NumTypes, NO \in NumTypes :
       \E u \in UnitsOf("Centimeter") \cup UnitsOf("UserUnit") :
         \E a \in CastLanes(ty), b \in CastLanes(ty) :
           \E fn \in {"Vec2D::try_cast", "Vec2D::cast"} :
             LET self == Vec2DNewU(ty, a, b, u)
             IN  /\ call' = Call(fn, "none", self, NO, Nil)
                 /\ outcome' = IF fn = "Vec2D::try_cast"
                           THEN RetOption(Vec2DTryCast(self, NO))
                           ELSE Vec2DCast(self, NO)
  /\ pc' = "done"
  /\ UNCHANGED cfg

\* try_convert, convert, try_convert_u, convert_u
CallConvert ==
  /\ pc = "ready"
  /\ \E ty \in IntTypes, F \in PrefixTypes, T \in PrefixTypes :
       \E a \in ConvertLanes(ty), b \in ConvertLanes(ty) :
         \E fn \in {"Vec2D::try_convert", "Vec2D::convert",
                    "Vec2D::try_convert_u", "Vec2D::convert_u"} :
           LET self == Vec2DNewU(ty, a, b, DefaultUnit(F))
               to   == DefaultUnit(T)
           IN  /\ call' = Call(fn, "none", self, to, Nil)
               /\ outcome' = CASE fn = "Vec2D::try_convert"   -> RetOption(try_convert(self, T))
                           [] fn = "Vec2D::convert"       -> convert(self, T)
                           [] fn = "Vec2D::try_convert_u" -> RetOption(try_convert_u(self, to))
                           [] fn = "Vec2D::convert_u"     -> convert_u(self, to)
  /\ pc' = "done"
  /\ UNCHANGED cfg

\* v.try_convert::<B>() and, on Some(w), w.try_convert::<A>(): the unit round trip
RoundTrip(self, B) ==
  LET there == try_convert(self, B)
  IN  IF there.some THEN try_convert(there.v, self.unit.type) ELSE None

CallRoundTrip ==
  /\ pc = "ready"
  /\ \E ty \in IntTypes, A \in PrefixTypes, B \in PrefixTypes :
       \E a \in ConvertLanes(ty), b \in SmallLanes(ty) :
         LET self == Vec2DNewU(ty, a, b, DefaultUnit(A))
         IN  /\ call' = Call("round_trip", "none", self, DefaultUnit(B), Nil)
             /\ outcome' = RetOption(RoundTrip(self, B))
  /\ pc' = "done"
  /\ UNCHANGED cfg

\* the sum alone
AddOnly(a, b) == Vec2DOp("add", a, b)

\* (a + b) - b: the difference is taken only if the sum returned
AddSub(a, b) ==
  LET sum == Vec2DOp("add", a, b)
  IN  IF sum.kind = "value" THEN Vec2DOp("sub", sum.val, b) ELSE sum

CallAddSub ==
  /\ pc = "ready"
  /\ \E u \in AllUnits :
       \E a \in Vecs("i8", u), ru \in UnitsOf(u.type) :
         \E b \in RhsVecs("i8", ru) :
           /\ call' = Call("add_sub", "none", a, b, Nil)
           /\ outcome' = AddSub(a, b)
  /\ pc' = "done"
  /\ UNCHANGED cfg

CallVec2DEq ==
  /\ pc = "ready"
  /\ \E ty \in ArithTypes, u \in AllUnits :
       \E a \in CmpVecs(ty, u), ru \in UnitsOf(u.type) :
         \E b \in CmpVecs(ty, ru) :
           /\ call' = Call("Vec2D::eq", "none", a, b, Nil)
           /\ outcome' = RetVal(Vec2DEq(a, b))
  /\ pc' = "done"
  /\ UNCHANGED cfg

\* cmp (N: Ord) and partial_cmp
CallVec2DCmp ==
  /\ pc = "ready"
  /\ \E ty \in ArithTypes, u \in AllUnits :
       \E a \in CmpVecs(ty, u), ru \in UnitsOf(u.type) :
         \E b \in CmpVecs(ty, ru), fn \in {"Vec2D::cmp", "Vec2D::partial_cmp"} :
           /\ fn = "Vec2D::cmp" => ty \in IntTypes
           /\ call' = Call(fn, "none", a, b, Nil)
           /\ outcome' = IF fn = "Vec2D::cmp" THEN RetVal(Vec2DCmp(a, b))
                         ELSE RetOption(Vec2DPartialCmp(a, b))
  /\ pc' = "done"
  /\ UNCHANGED cfg

\* the three comparisons under a lexicographic order
CmpChainLex(a, b, c) == <<Vec2DCmpLex(a, b), Vec2DCmpLex(b, c), Vec2DCmpLex(a, c)>>

\* a.cmp(&b), b.cmp(&c) and a.cmp(&c)
CmpChain(a, b, c) == <<Vec2DCmp(a, b), Vec2DCmp(b, c), Vec2DCmp(a, c)>>

CallCmpChain ==
  /\ pc = "ready"
  /\ \E a \in ChainVecs, b \in ChainVecs, c \in ChainVecs :
       /\ call' = Call("cmp_chain", "none", a, b, c)
       /\ outcome' = RetVal(CmpChain(a, b, c))
  /\ pc' = "done"
  /\ UNCHANGED cfg

(***************************************************************************)
(* Rect<N>                                                                 *)
(***************************************************************************)
CallRectCast ==
  /\ pc = "ready"
  /\ \E ty \in NumTypes, NO \in NumTypes :
       \E self \in CastRects(ty), fn \in {"Rect::try_cast", "Rect::cast"} :
         /\ call' = Call(fn, "none", self, NO, Nil)
         /\ outcome' = IF fn = "Rect::try_cast"
                   THEN RetOption(RectTryCast(self, NO))
                   ELSE RectCast(self, NO)
  /\ pc' = "done"
  /\ UNCHANGED cfg

CallNewMinMax ==
  /\ pc = "ready"
  /\ \E min \in Points \cup EdgePoints, max \in Points \cup EdgePoints :
       /\ call' = Call("Rect::new_min_max", "none", Nil, min, max)
       /\ outcome' = new_min_max("i8", min, max)
  /\ pc' = "done"
  /\ UNCHANGED cfg

CallFromBox2D ==
  /\ pc = "ready"
  /\ \E min \in Points \cup EdgePoints, max \in Points \cup EdgePoints :
       /\ call' = Call("Rect::from", "none", Nil, [min |-> min, max |-> max], Nil)
       /\ outcome' = FromBox2D("i8", [min |-> min, max |-> max])
  /\ pc' = "done"
  /\ UNCHANGED cfg

\* min, max
CallRectCorner ==
  /\ pc = "ready"
  /\ \E self \in Rects, fn \in {"Rect::min", "Rect::max"} :
       /\ call' = Call(fn, "none", self, Nil, Nil)
       /\ outcome' = IF fn = "Rect::min" THEN RetVal(RectMin(self))
                 ELSE IF RectMax(self).ok THEN RetVal(RectMax(self).v)
                 ELSE RetPanic(RectMax(self).why)
  /\ pc' = "done"
  /\ UNCHANGED cfg

CallContainsPos ==
  /\ pc = "ready"
  /\ \E self \in Rects, pos \in Points \cup EdgePoints :
       /\ call' = Call("Rect::contains_pos", "none", self, pos, Nil)
       /\ outcome' = contains_pos(self, pos)
  /\ pc' = "done"
  /\ UNCHANGED cfg

CallContainsRect ==
  /\ pc = "ready"
  /\ \E self \in SelfRects, rect \in Rects :
       /\ call' = Call("Rect::contains_rect", "none", self, rect, Nil)
       /\ outcome' = contains_rect(self, rect)
  /\ pc' = "done"
  /\ UNCHANGED cfg

CallIntersectsRect ==
  /\ pc = "ready"
  /\ \E self \in SelfRects, other \in Rects :
       /\ call' = Call("Rect::intersects_rect", "none", self, other, Nil)
       /\ outcome' = intersects_rect(self, other)
  /\ pc' = "done"
  /\ UNCHANGED cfg

CallIntersection ==
  /\ pc = "ready"
  /\ \E self \in SelfRects, other \in Rects :
       /\ call' = Call("Rect::intersection", "none", self, other, Nil)
       /\ outcome' = intersection(self, other)
  /\ pc' = "done"
  /\ UNCHANGED cfg

\* is_negative, is_empty
CallRectSign ==
  /\ pc = "ready"
  /\ \E self \in Rects, fn \in {"Rect::is_negative", "Rect::is_empty"} :
       /\ call' = Call(fn, "none", self, Nil, Nil)
       /\ outcome' = IF fn = "Rect::is_negative" THEN is_negative(self) ELSE is_empty(self)
  /\ pc' = "done"
  /\ UNCHANGED cfg

CallResize ==
  /\ pc = "ready"
  /\ \E self \in Rects, value \in ResizeVecs, fn \in {"Rect::shrink", "Rect::expand"} :
       /\ call' = Call(fn, "none", self, value, Nil)
       /\ outcome' = IF fn = "Rect::shrink" THEN shrink(self, value) ELSE expand(self, value)
  /\ pc' = "done"
  /\ UNCHANGED cfg

CallCenter ==
  /\ pc = "ready"
  /\ \E self \in Rects :
       /\ call' = Call("Rect::center", "none", self, Nil, Nil)
       /\ outcome' = center(self)
  /\ pc' = "done"
  /\ UNCHANGED cfg

\* the operators against a Rect and their assignment forms
CallRectOp ==
  /\ pc = "ready"
  /\ \E op \in Ops, self \in SelfRects, rhs \in RhsRects,
        fn \in {"Rect::op", "Rect::op_assign"} :
       /\ call' = Call(fn, op, self, rhs, Nil)
       /\ outcome' = IF fn = "Rect::op" THEN RectOp(op, self, rhs)
                     ELSE RectOpAssign(op, self, rhs)
  /\ pc' = "done"
  /\ UNCHANGED cfg

\* the operators against a Vec2 and their assignment forms
CallRectOpVec ==
  /\ pc = "ready"
  /\ \E op \in Ops, self \in SelfRects, rhs \in Points,
        fn \in {"Rect::op_vec", "Rect::op_assign_vec"} :
       /\ call' = Call(fn, op, self, rhs, Nil)
       /\ outcome' = IF fn = "Rect::op_vec" THEN RectOpVec(op, self, rhs)
                     ELSE RectOpAssignVec(op, self, rhs)
  /\ pc' = "done"
  /\ UNCHANGED cfg

\* the operators against a bare number and their assignment forms
CallRectOpNum ==
  /\ pc = "ready"
  /\ \E op \in Ops, self \in Rects, rhs \in Coords,
        fn \in {"Rect::op_num", "Rect::op_assign_num"} :
       /\ call' = Call(fn, op, self, rhs, Nil)
       /\ outcome' = IF fn = "Rect::op_num" THEN RectOpNum(op, self, rhs)
                     ELSE RectOpAssignNum(op, self, rhs)
  /\ pc' = "done"
  /\ UNCHANGED cfg

\* a == b, a.cmp(&b) and b.cmp(&a)
RectCompare(a, b) == [eq |-> RectEq(a, b), cmp |-> RectCmp(a, b), rev |-> RectCmp(b, a)]

CallRectCompare ==
  /\ pc = "ready"
  /\ \E a \in Rects, b \in RhsRects :
       /\ call' = Call("Rect::compare", "none", a, b, Nil)
       /\ outcome' = RetVal(RectCompare(a, b))
  /\ pc' = "done"
  /\ UNCHANGED cfg

Return ==
  /\ pc = "done"
  /\ pc' = "ready"
  /\ call' = NoCall
  /\ outcome' = RetNone
  /\ UNCHANGED cfg

Init ==
  /\ cfg \in [debug_assertions : BOOLEAN, debug_unit_check : BOOLEAN]
  /\ pc = "ready"
  /\ call = NoCall
  /\ outcome = RetNone

Next ==
  \/ CallValueOp
  \/ CallValueOpNum
  \/ CallValueOpAssign
  \/ CallValueOpAssignNum
  \/ CallValueLerp
  \/ CallValueAnyUnit
  \/ CallVec2DOp
  \/ CallVec2DOpNum
  \/ CallVec2DOpAssign
  \/ CallVec2DOpAssignNum
  \/ CallMove
  \/ CallMap
  \/ CallVals
  \/ CallLanes
  \/ CallMinMax
  \/ CallAnyUnit
  \/ CallCast
  \/ CallConvert
  \/ CallRoundTrip
  \/ CallRectCast
  \/ CallAddSub
  \/ CallVec2DEq
  \/ CallVec2DCmp
  \/ CallCmpChain
  \/ Return

Spec == Init /\ [][Next]_vars

(***************************************************************************)
(* The rectangle calls on their own.  Rect<N> carries no unit, so the      *)
(* build is taken without the feature debug_unit_check.                    *)
(***************************************************************************)
RectInit ==
  /\ cfg \in [debug_assertions : BOOLEAN, debug_unit_check : {FALSE}]
  /\ pc = "ready"
  /\ call = NoCall
  /\ outcome = RetNone

RectNext ==
  \/ CallNewMinMax
  \/ CallFromBox2D
  \/ CallRectCorner
  \/ CallContainsPos
  \/ CallContainsRect
  \/ CallIntersectsRect
  \/ CallIntersection
  \/ CallRectSign
  \/ CallResize
  \/ CallCenter
  \/ CallRectOp
  \/ CallRectOpVec
  \/ CallRectOpNum
  \/ CallRectCompare
  \/ Return

RectSpec == RectInit /\ [][RectNext]_vars

(***************************************************************************)
(* Properties.  Each is about the call just made: pc = "done", with call   *)
(* holding the function and its arguments and outcome what it returned.        *)
(***************************************************************************)
Done(fns) == pc = "done" /\ call.fn \in fns

\* the calls that run check_compatible on the units of their two operands
CheckedFns ==
  {"Value::op", "Value::op_assign", "Value::lerp",
   "Vec2D::op", "Vec2D::op_assign", "Vec2D::move_x", "Vec2D::move_y"}

HaltsAtCheck == outcome.kind = "panic" /\ outcome.why = "check_compatible" /\ outcome.val = Nil

\* the build compiles check_compatible out
CheckCompiledOut == cfg.debug_unit_check /\ ~cfg.debug_assertions

ConvertFns ==
  {"Vec2D::try_convert", "Vec2D::convert", "Vec2D::try_convert_u", "Vec2D::convert_u"}

AnyUnitFns == {"Value::any_unit", "Vec2D::any_unit"}

KeepFns ==
  {"Value::op", "Value::op_num", "Value::op_assign", "Value::op_assign_num",
   "Value::lerp", "Vec2D::op", "Vec2D::op_num", "Vec2D::op_assign",
   "Vec2D::op_assign_num", "Vec2D::move_x", "Vec2D::move_y", "Vec2D::map",
   "Vec2D::map_x", "Vec2D::map_y", "Vec2D::vals", "Vec2D::x", "Vec2D::y",
   "Vec2D::xy", "Vec2D::yx", "Vec2D::min", "Vec2D::max", "Vec2D::try_cast",
   "Vec2D::cast"}

\* C2: the result of every Value or Vec2D operation carries the receiver's
\* unit, except that a conversion yields the target unit and any_unit the
\* no-unit tag.
C2_UnitTagPreserved ==
  (pc = "done" /\ outcome.kind = "value") =>
    /\ call.fn \in KeepFns => outcome.val.unit = call.self.unit
    /\ call.fn \in ConvertFns => outcome.val.unit = call.arg
    /\ call.fn \in AnyUnitFns => outcome.val.unit = NoUnit

\* map_x on a vector of a user unit with a nonzero id kept that unit
C2_Witness ==
  /\ Done({"Vec2D::map_x"})
  /\ call.self.unit = [type |-> "UserUnit", id |-> 1]
  /\ outcome.kind = "value"
  /\ outcome.val.unit = call.self.unit

\* the denominator of a prefix unit's base factor
Den(t) == FactorLiteral(t)[2]

\* lane * factor(F) / factor(T) in exact arithmetic, the fraction discarded
ExactLane(n, F, T) == TruncDiv(n * Den(T), Den(F))

\* the quotients of the base factors as doubles, by source and target unit
FactorQuotient ==
  [F \in PrefixTypes, T \in PrefixTypes |->
     F64Div(F64Div(F64FromInt(1), F64FromInt(Den(F))),
            F64Div(F64FromInt(1), F64FromInt(Den(T))))] @@ << >>

\* the double n * (factor(F) / factor(T)), truncated, with the sign of n
F64Lane(n, F, T) ==
  LET mag == F64Trunc(F64MulInt(IF n >= 0 THEN n ELSE -n, FactorQuotient[F, T]))
  IN  IF n >= 0 THEN mag ELSE -mag

C4_RoundTripIsIdentity ==
  (Done({"round_trip"}) /\ outcome.kind = "value"
     /\ Den(call.arg.type) % Den(call.self.unit.type) = 0) =>
    outcome.val.value = call.self.value

\* x of element type from has a value in element type to
Representable(x, from, to) ==
  IF to = "f32" THEN TRUE
  ELSE IF from = "f32"
       THEN x # NaN /\ IntMin(to) <= TruncQuarters(x) /\ TruncQuarters(x) <= IntMax(to)
       ELSE IntMin(to) <= x /\ x <= IntMax(to)

\* the lanes of a carrier: two of a Vec2D, four of a Rect
LanesOf(v, fn) ==
  IF fn \in {"Rect::try_cast", "Rect::cast"}
  THEN <<v.origin[1], v.origin[2], v.size[1], v.size[2]>>
  ELSE v.value

\* every lane of the source of the cast just made has a value in the target
CastRepresentable ==
  \A i \in DOMAIN LanesOf(call.self, call.fn) :
    Representable(LanesOf(call.self, call.fn)[i], call.self.ty, call.arg)

\* every lane of the source of the conversion just made, scaled, lies in N
ConvertRepresentable ==
  \A i \in 1..2 :
    LET r == ExactLane(call.self.value[i], call.self.unit.type, call.arg.type)
    IN  IntMin(call.self.ty) <= r /\ r <= IntMax(call.self.ty)

\* C5: try_cast (of Vec2D and of Rect) and try_convert/try_convert_u return
\* None exactly when some lane has no value in the target element type, and
\* otherwise Some of the value with every lane converted; cast, convert and
\* convert_u panic exactly when the try_ form on the same arguments is None,
\* and otherwise return what it wraps.
C5_FailureIsAbsence ==
  /\ Done({"Vec2D::try_cast", "Rect::try_cast"}) =>
       /\ outcome.kind = "none" <=> ~CastRepresentable
       /\ outcome.kind # "none" =>
            /\ outcome.kind = "value"
            /\ outcome.val.ty = call.arg
            /\ \A i \in DOMAIN LanesOf(call.self, call.fn) :
                 LanesOf(outcome.val, call.fn)[i] =
                   NumCastFrom(LanesOf(call.self, call.fn)[i], call.self.ty, call.arg).v
  /\ Done({"Vec2D::try_convert", "Vec2D::try_convert_u"}) =>
       /\ outcome.kind = "none" <=> ~ConvertRepresentable
       /\ outcome.kind # "none" =>
            /\ outcome.kind = "value"
            /\ outcome.val.ty = call.self.ty
            /\ \A i \in 1..2 :
                 outcome.val.value[i] =
                   F64Lane(call.self.value[i], call.self.unit.type, call.arg.type)
  /\ Done({"Vec2D::cast"}) =>
       outcome = Expect(Vec2DTryCast(call.self, call.arg), outcome.why)
  /\ Done({"Rect::cast"}) =>
       outcome = Expect(RectTryCast(call.self, call.arg), outcome.why)
  /\ Done({"Vec2D::convert"}) =>
       outcome = Expect(try_convert(call.self, call.arg.type), outcome.why)
  /\ Done({"Vec2D::convert_u"}) =>
       outcome = Expect(try_convert_u(call.self, call.arg), outcome.why)
  /\ Done({"Vec2D::cast", "Rect::cast", "Vec2D::convert", "Vec2D::convert_u"}) =>
       outcome.kind \in {"value", "panic"}

\* a Rect whose origin casts and whose size does not gave None
C5_Witness ==
  /\ Done({"Rect::try_cast"})
  /\ Vec2TryCast(call.self.origin, call.self.ty, call.arg).some
  /\ ~Vec2TryCast(call.self.size, call.self.ty, call.arg).some
  /\ outcome = RetNone

\* C6: a cast of a Vec2D of floats to an integer type succeeds whenever each
\* lane, truncated toward zero, lies in the target type, and then yields the
\* truncated lanes: (250.5, 250.5) gives (250, 250), (0.5, 0.5) gives (0, 0).
C6_CastTruncates ==
  (Done({"Vec2D::try_cast", "Vec2D::cast"}) /\ call.self.ty = "f32"
     /\ call.arg \in IntTypes) =>
    /\ (\A i \in 1..2 :
          /\ call.self.value[i] # NaN
          /\ IntMin(call.arg) <= TruncQuarters(call.self.value[i])
          /\ TruncQuarters(call.self.value[i]) <= IntMax(call.arg)) =>
         /\ outcome.kind = "value"
         /\ \A i \in 1..2 : outcome.val.value[i] = TruncQuarters(call.self.value[i])
    /\ (call.self.value = <<1002, 1002>> /\ call.arg = "u8") =>
         (outcome.kind = "value" /\ outcome.val.value = <<250, 250>>)
    /\ call.self.value = <<2, 2>> =>
         (outcome.kind = "value" /\ outcome.val.value = <<0, 0>>)

\* (250.5, 250.5) was cast to (250, 250)
C6_Witness ==
  /\ Done({"Vec2D::cast"})
  /\ call.self.ty = "f32"
  /\ call.self.value = <<1002, 1002>>
  /\ call.arg = "u8"
  /\ outcome.kind = "value"
  /\ outcome.val.value = <<250, 250>>

\* x lies in i8, the element type of the rectangles of the model
InI8(x) == IntMin("i8") <= x /\ x <= IntMax("i8")

\* the max corner origin + size of r in exact arithmetic
ExactMax(r) == <<r.origin[1] + r.size[1], r.origin[2] + r.size[2]>>

\* the max corner of r has a value in the element type
MaxInRange(r) == InI8(ExactMax(r)[1]) /\ InI8(ExactMax(r)[2])

\* p lies in the closed box from lo to hi
InClosedBox(lo, hi, p) ==
  lo[1] <= p[1] /\ p[1] <= hi[1] /\ lo[2] <= p[2] /\ p[2] <= hi[2]

\* the corners handed to the constructor call just made
MinArg == IF call.fn = "Rect::from" THEN call.arg.min ELSE call.arg

MaxArg == IF call.fn = "Rect::from" THEN call.arg.max ELSE call.arg2

\* C7: when max - min has a value in the element type, new_min_max(min, max)
\* returns the rectangle with origin = min and size = max - min, whose min()
\* is min and whose max() is max, whatever the order of min and max; the
\* conversion from a euclid Box2D returns the same rectangle for the box's
\* corners.
C7_NewMinMax ==
  (Done({"Rect::new_min_max", "Rect::from"})
     /\ InI8(MaxArg[1] - MinArg[1]) /\ InI8(MaxArg[2] - MinArg[2])) =>
    /\ outcome.kind = "value"
    /\ outcome.val.origin = MinArg
    /\ outcome.val.size = <<MaxArg[1] - MinArg[1], MaxArg[2] - MinArg[2]>>
    /\ RectMin(outcome.val) = MinArg
    /\ RectMax(outcome.val) = Ok(MaxArg)

\* corners in no order: the rectangle from (1, 0) to (0, 1) has size (-1, 1)
C7_Witness ==
  /\ Done({"Rect::new_min_max"})
  /\ call.arg = <<1, 0>>
  /\ call.arg2 = <<0, 1>>
  /\ outcome.kind = "value"
  /\ outcome.val.size = <<-1, 1>>
  /\ RectMax(outcome.val) = Ok(<<0, 1>>)

\* C8: contains_pos(p) is min.x <= p.x <= max.x /\ min.y <= p.y <= max.y with
\* min = origin and max = origin + size, edges and corners included, and
\* contains_rect(other) is contains_pos(other.min()) /\ contains_pos(other.max()).
\* (Where origin + size overflows, max is what max() returns, and a call
\* that cannot compute a max it needs panics.)
C8_ClosedContainment ==
  /\ Done({"Rect::contains_pos"}) =>
       /\ MaxInRange(call.self) =>
            outcome = RetVal(InClosedBox(call.self.origin, ExactMax(call.self), call.arg))
       /\ RectMax(call.self).ok =>
            outcome = RetVal(InClosedBox(RectMin(call.self), RectMax(call.self).v, call.arg))
       /\ outcome.kind = "value" <=> RectMax(call.self).ok
  /\ Done({"Rect::contains_rect"}) =>
       LET hasMin == contains_pos(call.self, RectMin(call.arg))
           oMax   == RectMax(call.arg)
       IN  /\ outcome.kind = "value" =>
                outcome.val = (/\ hasMin = RetVal(TRUE)
                               /\ oMax.ok
                               /\ contains_pos(call.self, oMax.v) = RetVal(TRUE))
           /\ (MaxInRange(call.self) /\ MaxInRange(call.arg)) =>
                outcome = RetVal(/\ InClosedBox(call.self.origin, ExactMax(call.self),
                                                call.arg.origin)
                                 /\ InClosedBox(call.self.origin, ExactMax(call.self),
                                                ExactMax(call.arg)))

\* the max corner of a rectangle is inside it
C8_Witness ==
  /\ Done({"Rect::contains_pos"})
  /\ call.self.size = <<1, 1>>
  /\ MaxInRange(call.self)
  /\ call.arg = ExactMax(call.self)
  /\ outcome = RetVal(TRUE)

\* C9 as stated: every rectangle contains and intersects itself.
C9_SelfContainsAndIntersects ==
  (Done({"Rect::contains_rect", "Rect::intersects_rect"}) /\ call.arg = call.self) =>
    outcome = RetVal(TRUE)

\* C9, amended: a rectangle whose max corner origin + size has a value in the
\* element type contains and intersects itself exactly when its size is
\* non-negative on both axes.
C9_SelfContainsIffNonNegative ==
  (Done({"Rect::contains_rect", "Rect::intersects_rect"}) /\ call.arg = call.self
     /\ MaxInRange(call.self)) =>
    outcome = RetVal(call.self.size[1] >= 0 /\ call.self.size[2] >= 0)

\* a rectangle of size (1, 0) was found to contain itself
C9_Witness ==
  /\ Done({"Rect::contains_rect"})
  /\ call.arg = call.self
  /\ call.self.size = <<1, 0>>
  /\ MaxInRange(call.self)
  /\ outcome = RetVal(TRUE)

\* C10: intersects_rect(other) is self.min.x <= other.max.x /\ self.max.x >=
\* other.min.x /\ self.min.y <= other.max.y /\ self.max.y >= other.min.y, so
\* rectangles that touch at an edge or a corner intersect and rectangles of
\* non-negative size with a gap between them on some axis do not.
C10_IntersectsClosed ==
  Done({"Rect::intersects_rect"}) =>
    LET s == call.self
        o == call.arg
    IN  /\ (MaxInRange(s) /\ MaxInRange(o)) =>
             /\ outcome = RetVal(/\ s.origin[1] <= ExactMax(o)[1]
                                 /\ ExactMax(s)[1] >= o.origin[1]
                                 /\ s.origin[2] <= ExactMax(o)[2]
                                 /\ ExactMax(s)[2] >= o.origin[2])
             /\ (\E i \in 1..2 : s.size[i] >= 0 /\ o.size[i] >= 0 /\
                                 (ExactMax(s)[i] < o.origin[i] \/ ExactMax(o)[i] < s.origin[i]))
                  => outcome = RetVal(FALSE)
        /\ (s = RectNew("i8", <<0, 0>>, <<1, 1>>) /\ o = RectNew("i8", <<1, 1>>, <<1, 1>>))
             => outcome = RetVal(TRUE)
        /\ outcome.kind = "value" <=> (RectMax(s).ok /\ RectMax(o).ok)
        /\ outcome.kind = "value" =>
             outcome.val = (/\ RectMin(s)[1] <= RectMax(o).v[1]
                            /\ RectMax(s).v[1] >= RectMin(o)[1]
                            /\ RectMin(s)[2] <= RectMax(o).v[2]
                            /\ RectMax(s).v[2] >= RectMin(o)[2])

\* origin (0,0) size (1,1) against origin (1,1) size (1,1): they touch at a corner
C10_Witness ==
  /\ Done({"Rect::intersects_rect"})
  /\ call.self = RectNew("i8", <<0, 0>>, <<1, 1>>)
  /\ call.arg = RectNew("i8", <<1, 1>>, <<1, 1>>)
  /\ outcome = RetVal(TRUE)

\* C11 as stated: intersection returns the rectangle whose min corner is the
\* elementwise maximum of the two min corners and whose max corner origin +
\* size is the elementwise minimum of the two max corners.
C11_IntersectionCorners ==
  (Done({"Rect::intersection"}) /\ outcome.kind = "value") =>
    LET s == call.self
        o == call.arg
        r == outcome.val
    IN  /\ r.origin = <<OrdMax(s.origin[1], o.origin[1]), OrdMax(s.origin[2], o.origin[2])>>
        /\ ExactMax(r) = <<OrdMin(RectMax(s).v[1], RectMax(o).v[1]),
                           OrdMin(RectMax(s).v[2], RectMax(o).v[2])>>

\* C12: is_negative is max.x < min.x \/ max.y < min.y and is_empty is
\* ~(max.x > min.x /\ max.y > min.y), with min = origin and max = origin +
\* size; so a negative rectangle is empty, a rectangle with a zero extent and
\* no negative one is empty and not negative, and a rectangle with positive
\* extent on both axes is neither.  Both halt when origin + size overflows
\* under overflow checks.
C12_NegativeAndEmpty ==
  Done({"Rect::is_negative", "Rect::is_empty"}) =>
    LET r   == call.self
        min == RectMin(r)
        max == RectMax(r)
        neg == call.fn = "Rect::is_negative"
    IN  /\ outcome.kind = "value" <=> max.ok
        /\ max.ok =>
             outcome = RetVal(IF neg THEN max.v[1] < min[1] \/ max.v[2] < min[2]
                              ELSE ~(max.v[1] > min[1] /\ max.v[2] > min[2]))
        /\ MaxInRange(r) =>
             outcome = RetVal(IF neg THEN r.size[1] < 0 \/ r.size[2] < 0
                              ELSE ~(r.size[1] > 0 /\ r.size[2] > 0))
        /\ (neg /\ outcome = RetVal(TRUE)) => is_empty(r) = RetVal(TRUE)
        /\ (MaxInRange(r) /\ r.size[1] >= 0 /\ r.size[2] >= 0 /\ 0 \in {r.size[1], r.size[2]})
             => outcome = RetVal(~neg)
        /\ (MaxInRange(r) /\ r.size[1] > 0 /\ r.size[2] > 0) => outcome = RetVal(FALSE)

\* origin (0,0) size (0,0) was found empty, and it is not negative
C12_Witness ==
  /\ Done({"Rect::is_empty"})
  /\ call.self = RectNew("i8", <<0, 0>>, <<0, 0>>)
  /\ outcome = RetVal(TRUE)
  /\ is_negative(call.self) = RetVal(FALSE)

\* the exact sum or difference of two pairs
PairAdd(a, b) == <<a[1] + b[1], a[2] + b[2]>>

PairSub(a, b) == <<a[1] - b[1], a[2] - b[2]>>

\* v / 2 in the element type
PairHalf(v) == <<TruncDiv(v[1], 2), TruncDiv(v[2], 2)>>

\* C13 as stated, on the integers: shrink(v) returns the rectangle of size
\* r.size - v and origin r.origin + v/2, expand(v) the one of size r.size + v
\* and origin r.origin - v/2, and both leave center() where it was.
C13_ResizeKeepsCenter ==
  (Done({"Rect::shrink", "Rect::expand"}) /\ outcome.kind = "value") =>
    LET r == call.self
        v == call.arg
        s == outcome.val
    IN  /\ s.size = IF call.fn = "Rect::shrink" THEN PairSub(r.size, v) ELSE PairAdd(r.size, v)
        /\ s.origin = IF call.fn = "Rect::shrink" THEN PairAdd(r.origin, PairHalf(v))
                      ELSE PairSub(r.origin, PairHalf(v))
        /\ (center(r).kind = "value" /\ center(s).kind = "value") => center(s) = center(r)

\* the lanes of the right operand of the Vec2D operator just called: those of
\* a Vec2D, or a bare number broadcast
RhsLanes ==
  IF call.fn \in {"Vec2D::op", "Vec2D::op_assign"} THEN call.arg.value
  ELSE <<call.arg, call.arg>>

\* C14: a Vec2D operator returns (a.x op b.x, a.y op b.y), with a bare number
\* taken for both lanes of b; it returns no value only when the unit check
\* halts it or a lane operation fails, and against a bare number the unit
\* check is never run; an assignment form leaves in a what the operator
\* returns.
C14_Componentwise ==
  Done({"Vec2D::op", "Vec2D::op_num", "Vec2D::op_assign", "Vec2D::op_assign_num"}) =>
    LET a  == call.self
        b  == RhsLanes
        x  == NumOp(call.op, a.ty, a.value[1], b[1], OverflowChecks)
        y  == NumOp(call.op, a.ty, a.value[2], b[2], OverflowChecks)
        ex == <<Exact(call.op, a.value[1], b[1]), Exact(call.op, a.value[2], b[2])>>
        checked == call.fn \in {"Vec2D::op", "Vec2D::op_assign"}
        halted  == checked /\ ~is_self_compatible(a.unit, call.arg.unit) /\ ~CheckCompiledOut
    IN  /\ outcome.kind = "value" <=> (~halted /\ x.ok /\ y.ok)
        /\ outcome.kind = "value" => outcome.val.value = <<x.v, y.v>>
        /\ (outcome.kind = "value" /\ a.ty = "i8" /\ InI8(ex[1]) /\ InI8(ex[2]))
             => outcome.val.value = ex
        /\ ~checked => outcome.why # "check_compatible"
        /\ call.fn = "Vec2D::op_assign" => outcome = Vec2DOp(call.op, a, call.arg)
        /\ call.fn = "Vec2D::op_assign_num" => outcome = Vec2DOpNum(call.op, a, call.arg)

\* (0.5, 0.5) + 0.5 returned (1.0, 1.0)
C14_Witness ==
  /\ Done({"Vec2D::op_num"})
  /\ call.op = "add"
  /\ call.self.ty = "f32"
  /\ call.self.value = <<2, 2>>
  /\ call.arg = 2
  /\ outcome.kind = "value"
  /\ outcome.val.value = <<4, 4>>

\* C15 as stated: for compatible a and b over i8, (a + b) - b returns a, for
\* every pair.
C15_AddSubIsIdentity ==
  (Done({"add_sub"}) /\ is_self_compatible(call.self.unit, call.arg.unit)) =>
    (outcome.kind = "value" /\ outcome.val.value = call.self.value)

\* the sum of the operands of the call just made has a value in i8 on both lanes
SumInRange ==
  /\ InI8(call.self.value[1] + call.arg.value[1])
  /\ InI8(call.self.value[2] + call.arg.value[2])

\* C15, amended: for compatible a and b over i8, (a + b) - b returns a
\* whenever it returns; it returns for every pair in a build without
\* overflow checks, where the sum wraps, and in a build with them exactly
\* when a + b has a value in i8 on both lanes, panicking otherwise.
C15_AddSubIsIdentityUnlessOverflow ==
  (Done({"add_sub"}) /\ is_self_compatible(call.self.unit, call.arg.unit)) =>
    /\ outcome.kind = "value" <=> (SumInRange \/ ~OverflowChecks)
    /\ outcome.kind = "value" => outcome.val = call.self
    /\ outcome.kind # "value" => outcome = RetPanic("overflow")

\* (127, 0) + (1, 0) wrapped and the difference gave (127, 0) back
C15_Witness ==
  /\ Done({"add_sub"})
  /\ is_self_compatible(call.self.unit, call.arg.unit)
  /\ call.self.value = <<IntMax("i8"), 0>>
  /\ call.arg.value = <<1, 0>>
  /\ ~OverflowChecks
  /\ outcome.kind = "value"
  /\ outcome.val = call.self

\* the comparison code of two lanes that are both numbers
LaneCode(a, b) == IF a < b THEN -1 ELSE IF a > b THEN 1 ELSE 0

\* the sign of an integer
Sign(n) == IF n > 0 THEN 1 ELSE IF n < 0 THEN -1 ELSE 0

\* a lane of the two vectors just compared has no order: one side is a NaN
LaneUndefined(i) ==
  call.self.ty = "f32" /\ (call.self.value[i] = NaN \/ call.arg.value[i] = NaN)

\* C16: a == b exactly when both lanes are equal, whatever the unit values;
\* cmp and partial_cmp return the sign of the sum of the codes -1, 0, +1 of
\* the x comparison and the y comparison, so (2,0) and (1,1) compare Equal;
\* partial_cmp returns None exactly when a lane comparison is undefined.
C16_EqAndSumOfCodes ==
  LET a == call.self
      b == call.arg
  IN  /\ Done({"Vec2D::eq"}) =>
           outcome = RetVal(/\ ~LaneUndefined(1) /\ a.value[1] = b.value[1]
                            /\ ~LaneUndefined(2) /\ a.value[2] = b.value[2])
      /\ Done({"Vec2D::cmp"}) =>
           /\ outcome = RetVal(Sign(LaneCode(a.value[1], b.value[1]) +
                                    LaneCode(a.value[2], b.value[2])))
           /\ (a.value = <<2, 0>> /\ b.value = <<1, 1>>) => outcome = RetVal(0)
      /\ Done({"Vec2D::partial_cmp"}) =>
           /\ outcome = RetNone <=> (LaneUndefined(1) \/ LaneUndefined(2))
           /\ outcome # RetNone =>
                outcome = RetVal(Sign(LaneCode(a.value[1], b.value[1]) +
                                      LaneCode(a.value[2], b.value[2])))

\* (2,0) and (1,1) compared Equal, and they are not equal vectors
C16_Witness ==
  /\ Done({"Vec2D::cmp"})
  /\ call.self.value = <<2, 0>>
  /\ call.arg.value = <<1, 1>>
  /\ outcome = RetVal(Equal)
  /\ ~Vec2DEq(call.self, call.arg)

\* C17: cmp is not transitive on Equal: (0,0) and (1,-1) compare Equal, (1,-1)
\* and (0,1) compare Equal, but (0,0) is Less than (0,1); taken alone, Less
\* is transitive: if a is Less than b and b is Less than c then a is Less
\* than c.
C17_EqualNotTransitive ==
  Done({"cmp_chain"}) =>
    /\ (outcome.val[1] = Less /\ outcome.val[2] = Less) => outcome.val[3] = Less
    /\ (call.self.value = <<0, 0>> /\ call.arg.value = <<1, -1>> /\ call.arg2.value = <<0, 1>>)
         => outcome.val = <<Equal, Equal, Less>>

\* three vectors with a Equal to b and b Equal to c, but a not Equal to c
C17_Witness ==
  /\ Done({"cmp_chain"})
  /\ outcome.val[1] = Equal
  /\ outcome.val[2] = Equal
  /\ outcome.val[3] # Equal

RectOpFns ==
  {"Rect::op", "Rect::op_assign", "Rect::op_vec", "Rect::op_assign_vec",
   "Rect::op_num", "Rect::op_assign_num"}

\* what the rectangle operator just called puts against the origin and
\* against the size: the two fields of a Rect, a Vec2 twice, or a bare number
\* on both lanes twice
RhsOrigin ==
  IF call.fn \in {"Rect::op", "Rect::op_assign"} THEN call.arg.origin
  ELSE IF call.fn \in {"Rect::op_vec", "Rect::op_assign_vec"} THEN call.arg
  ELSE <<call.arg, call.arg>>

RhsSize ==
  IF call.fn \in {"Rect::op", "Rect::op_assign"} THEN call.arg.size
  ELSE IF call.fn \in {"Rect::op_vec", "Rect::op_assign_vec"} THEN call.arg
  ELSE <<call.arg, call.arg>>

\* a op b lane by lane in exact arithmetic, for a divisor without a zero
ExactPair(op, a, b) == <<Exact(op, a[1], b[1]), Exact(op, a[2], b[2])>>

\* op on the pairs a and b fails on no lane and leaves i8 on no lane
PairOpInRange(op, a, b) ==
  /\ op \in {"div", "rem"} => (b[1] # 0 /\ b[2] # 0)
  /\ op \in {"div", "rem"} => \A i \in 1..2 : ~(a[i] = IntMin("i8") /\ b[i] = -1)
  /\ \A i \in 1..2 : InI8(Exact(op, a[i], b[i]))

\* C18: a rectangle operator returns Rect(r.origin op x, r.size op y), where
\* x and y are the origin and the size of a Rect operand, or a Vec2 operand
\* twice, or a bare number on both lanes twice; it returns no value only
\* when one of the two vector operations fails; an assignment form leaves in
\* the receiver what the operator returns.
C18_RectOpOnOriginAndSize ==
  Done(RectOpFns) =>
    LET r == call.self
        o == Vec2Op(call.op, r.ty, r.origin, RhsOrigin)
        s == Vec2Op(call.op, r.ty, r.size, RhsSize)
    IN  /\ outcome.kind = "value" <=> (o.ok /\ s.ok)
        /\ outcome.kind = "value" => outcome.val = RectNew(r.ty, o.v, s.v)
        /\ (PairOpInRange(call.op, r.origin, RhsOrigin) /\ PairOpInRange(call.op, r.size, RhsSize))
             => outcome = RetVal(RectNew(r.ty, ExactPair(call.op, r.origin, RhsOrigin),
                                         ExactPair(call.op, r.size, RhsSize)))
        /\ call.fn = "Rect::op_assign" => outcome = RectOp(call.op, r, call.arg)
        /\ call.fn = "Rect::op_assign_vec" => outcome = RectOpVec(call.op, r, call.arg)
        /\ call.fn = "Rect::op_assign_num" => outcome = RectOpNum(call.op, r, call.arg)

\* origin (0,0) size (1,1) plus the Vec2 (1,1) returned origin (1,1) size (2,2)
C18_Witness ==
  /\ Done({"Rect::op_vec"})
  /\ call.op = "add"
  /\ call.self = RectNew("i8", <<0, 0>>, <<1, 1>>)
  /\ call.arg = <<1, 1>>
  /\ outcome = RetVal(RectNew("i8", <<1, 1>>, <<2, 2>>))

\* C19 as stated: cmp(a, b) is Equal exactly when a == b, and cmp(b, a) is the
\* reverse of cmp(a, b).
C19_CmpConsistentWithEq ==
  Done({"Rect::compare"}) =>
    /\ outcome.val.cmp = Equal <=> outcome.val.eq
    /\ outcome.val.rev = -outcome.val.cmp

====
